---------------------------- MODULE Spec2Model ----------------------------
(***************************************************************************)
(* The UAVSAR tile endpoint (GET /api/.../{z}/{x}/{y}): validation of the  *)
(* path parameters, tile -> Web Mercator bounding box, one upstream export *)
(* request, and the relay of the image or of a JSON error.                 *)
(*                                                                         *)
(* Numbers.  JavaScript numbers are modelled in fixed point:               *)
(*   tile coordinates   in units of 1/TileScale  (halves),                 *)
(*   degrees            in units of 1/DegScale   (1e-5 degree),            *)
(*   radians            in units of 1/RadScale   (1e-7 radian),            *)
(*   metres             as whole metres.                                   *)
(* The library functions Math.atan(0.5*(Math.exp(n)-Math.exp(-n))) and     *)
(* Math.log(Math.tan(a)) are tables of their IEEE-double values at the     *)
(* arguments the bounded tile domain produces, rounded to 1/RadScale.      *)
(* NaN and the infinities exist as results of Number() and of the          *)
(* transform at the zooms whose power of two no double holds; zoom is an   *)
(* integer.                                                                *)
(***************************************************************************)
EXTENDS Integers, Sequences, FiniteSets, TLC

VARIABLES
  env,          \* process.env.UAVSAR_SERVICE_URL when the module was loaded
  pc,           \* per request: where GET stands
  params,       \* per request: context.params
  bbox,         \* per request: [minX, minY, maxX, maxY], once computed
  fetches,      \* per request: the calls of fetch it made
  outstanding,  \* fetch promises not yet settled
  upstream,     \* per request: the Response fetch resolved with
  message,      \* per request: the local `message` (line 69)
  resp,         \* per request: the response GET returned
  thrown,       \* per request: the exception that left GET
  tile,         \* the tile address handed to the transform alone
  boxes,        \* its bounding box and those of its east and south neighbours
  map,                 \* FloodMap: the Leaflet map is attached
  startMarker,         \* startMarker.current: where the marker stands, or none
  routeLine,           \* routeLine.current: the geometry drawn, or none
  markersOnMap,        \* the start markers the map shows
  linesOnMap,          \* the route lines the map shows
  startCoords,
  routeOptions,
  selectedRouteId,
  pickedTarget,
  selectedRouteStats,
  activeRouteRequest,  \* activeRouteRequest.current
  routeCache,          \* routeCache.current: the keys it holds
  searches,            \* routeFrom calls waiting in `await Promise.all(...)`
  selects,             \* handleRouteSelect calls waiting in `await requestRoute(...)`
  searching,           \* Controls: a geocode call is under way
  setStartMap,         \* the map seen by the routeFrom that call will run
  geocodeError,        \* Controls: error
  stageStatus,
  pendingOperations,   \* pendingOperations.current
  busy,
  pdf,                 \* the document last handed to the browser
  layerSettings,
  sarStatus,
  runs,                \* the runs of the layer-setup effect, with their locals
  controls,            \* the side-by-side controls on the map
  layersOnMap,         \* <<run, side, name>> of the layers on the map
  sarLayerRef          \* sarLayerRef.current: the run whose layer it holds, or 0

handlerVars ==
  <<pc, params, bbox, fetches, outstanding, upstream, message, resp, thrown>>
tileVars == <<tile, boxes>>
routeVarsButStages ==
  <<map, startMarker, routeLine, markersOnMap, linesOnMap, startCoords, routeOptions,
    selectedRouteId, pickedTarget, selectedRouteStats, activeRouteRequest, routeCache,
    searches, selects, searching, setStartMap, geocodeError, pendingOperations, busy, pdf>>
routeVars == <<routeVarsButStages, stageStatus>>
layerVars == <<layerSettings, sarStatus, runs, controls, layersOnMap, sarLayerRef>>
notRouteVars == <<env, handlerVars, tileVars, layerVars>>
vars == <<env, handlerVars, tileVars, routeVars, layerVars>>

---------------------------------------------------------------------------
(* Bounds of the model *)

\* requests carry the integer columns/rows 0..MaxTile (and column -1, row 1/2)
MaxTile == 0
\* the transform alone is applied at zoom -1..MaxZoom
MaxZoom == 2
\* ... to the columns/rows -1, -1/2, 0, 1/2, ..., MaxIndex
MaxIndex == 3
\* the page runs routeFrom at most MaxSearches times,
MaxSearches == 2
\* has at most MaxSelects calls of handleRouteSelect waiting for OSRM
MaxSelects == 1
\* and runs the layer-setup effect at most MaxRuns times
MaxRuns == 2

---------------------------------------------------------------------------
(* Fixed point *)

TileScale == 2 ^ 1
DegScale == 10 ^ 5
RadScale == 10 ^ 7

Abs(a) == IF a < 0 THEN -a ELSE a
Sign(a) == IF a < 0 THEN -1 ELSE 1

\* <<q, r>> with a * b = q * c + r and 0 <= r < c, for 0 <= a < c, b >= 0:
\* long multiplication in base MulBase(c), chosen so that no intermediate
\* leaves 32 bits.
MulBase(c) == 2147483647 \div (2 * c)

RECURSIVE MulDivQR(_, _, _)
MulDivQR(a, b, c) ==
  IF b = 0 THEN <<0, 0>>
  ELSE LET h == MulDivQR(a, b \div MulBase(c), c)
           t == h[2] * MulBase(c) + a * (b % MulBase(c))
       IN <<h[1] * MulBase(c) + t \div c, t % c>>

\* a * b / c truncated toward zero (c > 0)
MulDiv(a, b, c) ==
  LET aa == Abs(a)
      bb == Abs(b)
  IN Sign(a) * Sign(b) * ((aa \div c) * bb + MulDivQR(aa % c, bb, c)[1])

RECURSIVE Pow2(_)
Pow2(k) == IF k = 0 THEN 1 ELSE 2 * Pow2(k - 1)

\* 2 ** z as the fraction Pow2Num(z) / Pow2Den(z), z an integer
Pow2Num(z) == IF z >= 0 THEN Pow2(z) ELSE 1
Pow2Den(z) == IF z >= 0 THEN 1 ELSE Pow2(-z)

---------------------------------------------------------------------------
(* Program constants *)

TILE_SIZE == 256
EARTH_RADIUS == 6378137
\* Math.PI in 1/RadScale
PI == 31415927
\* ORIGIN_SHIFT as the whole circumference, 2 * Math.PI * EARTH_RADIUS
ORIGIN_SHIFT_CIRCUMFERENCE == MulDiv(2 * PI, EARTH_RADIUS, RadScale)
\* Math.PI * EARTH_RADIUS, in metres
ORIGIN_SHIFT == MulDiv(PI, EARTH_RADIUS, RadScale)
\* the clamp of lonLatToWebMercator, 89.9999 degrees
MAX_LAT == 8999990

---------------------------------------------------------------------------
(* Math.* tables (keys and values in 1/RadScale) *)

\* Math.atan(0.5 * (Math.exp(n) - Math.exp(-n))), keyed by n
AtanSinh ==
  (-848230029 :> -15707963)
  @@ (-785398175 :> -15707963)
  @@ (-722566321 :> -15707963)
  @@ (-659734467 :> -15707963)
  @@ (-596902613 :> -15707963)
  @@ (-534070759 :> -15707963)
  @@ (-471238905 :> -15707963)
  @@ (-408407051 :> -15707963)
  @@ (-376991124 :> -15707963)
  @@ (-345575197 :> -15707963)
  @@ (-314159270 :> -15707963)
  @@ (-282743343 :> -15707963)
  @@ (-251327416 :> -15707963)
  @@ (-219911489 :> -15707963)
  @@ (-188495562 :> -15707963)
  @@ (-172787598 :> -15707963)
  @@ (-157079635 :> -15707960)
  @@ (-141371671 :> -15707949)
  @@ (-125663708 :> -15707894)
  @@ (-109955744 :> -15707628)
  @@ (-94247781 :> -15706349)
  @@ (-78539817 :> -15700199)
  @@ (-70685835 :> -15690935)
  @@ (-62831854 :> -15670614)
  @@ (-54977872 :> -15626047)
  @@ (-47123890 :> -15528302)
  @@ (-39269908 :> -15313957)
  @@ (-31415927 :> -14844222)
  @@ (-23561945 :> -13818005)
  @@ (-19634954 :> -12918847)
  @@ (-15707963 :> -11608754)
  @@ (-11780972 :> -9734848)
  @@ (-7853981 :> -7152341)
  @@ (-3926990 :> -3829784)
  @@ (0 :> 0)
  @@ (3926991 :> 3829784)
  @@ (5890487 :> 5576704)
  @@ (7853982 :> 7152341)
  @@ (9817478 :> 8538587)
  @@ (11780973 :> 9734848)
  @@ (13744469 :> 10752345)
  @@ (15707964 :> 11608754)
  @@ (17671459 :> 12324226)
  @@ (19634955 :> 12918847)
  @@ (21598450 :> 13411252)
  @@ (23561946 :> 13818005)
  @@ (25525441 :> 14153436)
  @@ (27488937 :> 14429734)
  @@ (29452432 :> 14657146)
  @@ (31415927 :> 14844222)
  @@ (33379422 :> 14998062)
  @@ (35342917 :> 15124540)
  @@ (37306413 :> 15228506)
  @@ (39269908 :> 15313957)
  @@ (43196899 :> 15441899)
  @@ (47123890 :> 15528302)
  @@ (54977872 :> 15626047)
  @@ (62831854 :> 15670614)
  @@ (78539817 :> 15700199)
  @@ (94247781 :> 15706349)
  @@ (125663708 :> 15707894)
  @@ (157079635 :> 15707960)
  @@ (219911489 :> 15707963)
  @@ (282743343 :> 15707963)

\* Math.log(Math.tan(a)), keyed by a
LogTan ==
  (8 :> -139517145)
  @@ (34 :> -125663706)
  @@ (168 :> -109955743)
  @@ (808 :> -94247780)
  @@ (3882 :> -78539816)
  @@ (8514 :> -70685835)
  @@ (18675 :> -62831853)
  @@ (40958 :> -54977871)
  @@ (89831 :> -47123890)
  @@ (197004 :> -39269908)
  @@ (431871 :> -31415927)
  @@ (944979 :> -23561945)
  @@ (1394559 :> -19634954)
  @@ (2049605 :> -15707963)
  @@ (2986558 :> -11780972)
  @@ (4277811 :> -7853982)
  @@ (5939090 :> -3926991)
  @@ (7853981 :> 0)
  @@ (9768873 :> 3926991)
  @@ (10642332 :> 5890486)
  @@ (11430151 :> 7853982)
  @@ (12123274 :> 9817477)
  @@ (12721404 :> 11780972)
  @@ (13230153 :> 13744468)
  @@ (13658357 :> 15707963)
  @@ (14016094 :> 17671459)
  @@ (14313404 :> 19634954)
  @@ (14559607 :> 21598449)
  @@ (14762983 :> 23561945)
  @@ (14930699 :> 25525440)
  @@ (15068848 :> 27488936)
  @@ (15182553 :> 29452431)
  @@ (15276092 :> 31415927)
  @@ (15353012 :> 33379422)
  @@ (15416250 :> 35342917)
  @@ (15468234 :> 37306413)
  @@ (15510959 :> 39269908)
  @@ (15574931 :> 43196899)
  @@ (15618132 :> 47123890)
  @@ (15667004 :> 54977871)
  @@ (15689288 :> 62831853)
  @@ (15704081 :> 78539816)
  @@ (15707155 :> 94247780)
  @@ (15707928 :> 125663706)
  @@ (15707954 :> 139517145)

---------------------------------------------------------------------------
(* Tile -> Web Mercator *)

Min(a, b) == IF a < b THEN a ELSE b
Max(a, b) == IF a > b THEN a ELSE b

\* (x / 2 ** z) * 360 - 180, degrees
tile2lon(x, z) ==
  MulDiv(x * Pow2Den(z), 360 * DegScale, TileScale * Pow2Num(z)) - 180 * DegScale

\* n = Math.PI - (2 * Math.PI * y) / 2 ** z;  (180 / Math.PI) * atan(sinh(n))
tile2lat(y, z) ==
  LET n == PI - MulDiv(2 * PI, y * Pow2Den(z), TileScale * Pow2Num(z))
  IN MulDiv(180 * DegScale, AtanSinh[n], PI)

lonLatToWebMercator(lon, lat) ==
  LET x == MulDiv(lon, ORIGIN_SHIFT, 180 * DegScale)
      clampedLat == Max(Min(lat, MAX_LAT), -MAX_LAT)
      y == MulDiv(LogTan[MulDiv(90 * DegScale + clampedLat, PI, 360 * DegScale)],
                  EARTH_RADIUS, RadScale)
  IN [x |-> x, y |-> y]

\* ComputeBBox with the axes of each corner exchanged (y before x)
ComputeBBoxAxesSwapped(zoom, tileX, tileY) ==
  LET sw == lonLatToWebMercator(tile2lon(tileX, zoom), tile2lat(tileY + TileScale, zoom))
      ne == lonLatToWebMercator(tile2lon(tileX + TileScale, zoom), tile2lat(tileY, zoom))
  IN <<sw.y, sw.x, ne.y, ne.x>>

\* ComputeBBox with the south edge taken from the row above (row - 1)
ComputeBBoxSouthAbove(zoom, tileX, tileY) ==
  LET sw == lonLatToWebMercator(tile2lon(tileX, zoom), tile2lat(tileY - TileScale, zoom))
      ne == lonLatToWebMercator(tile2lon(tileX + TileScale, zoom), tile2lat(tileY, zoom))
  IN <<sw.x, sw.y, ne.x, ne.y>>

\* ComputeBBox with north and south exchanged (rows taken to grow northward)
ComputeBBoxRowsNorthward(zoom, tileX, tileY) ==
  LET sw == lonLatToWebMercator(tile2lon(tileX, zoom), tile2lat(tileY, zoom))
      ne == lonLatToWebMercator(tile2lon(tileX + TileScale, zoom), tile2lat(tileY + TileScale, zoom))
  IN <<sw.x, sw.y, ne.x, ne.y>>

\* lines 45-53 of GET: the four values of the bbox parameter, in order
ComputeBBox(zoom, tileX, tileY) ==
  LET north == tile2lat(tileY, zoom)
      south == tile2lat(tileY + TileScale, zoom)
      west == tile2lon(tileX, zoom)
      east == tile2lon(tileX + TileScale, zoom)
      sw == lonLatToWebMercator(west, south)
      ne == lonLatToWebMercator(east, north)
  IN <<sw.x, sw.y, ne.x, ne.y>>

---------------------------------------------------------------------------
(* Path parameters and Number() *)

\* context.params.z / .x / .y: absent, or the text of a path segment.
\* "decimal" is a decimal literal: of the integer v for a zoom, of
\* v / TileScale for a column or a row.
Undefined == [t |-> "undefined", v |-> 0]
TextSeg == [t |-> "text", v |-> 0]
InfinitySeg == [t |-> "Infinity", v |-> 0]
Decimal(v) == [t |-> "decimal", v |-> v]

\* JavaScript numbers
NaN == [t |-> "NaN", v |-> 0]
Infinity == [t |-> "Infinity", v |-> 0]
NegInfinity == [t |-> "-Infinity", v |-> 0]
Num(v) == [t |-> "num", v |-> v]

\* Number(s) for a path segment s: "abc" -> NaN, "Infinity" -> Infinity
Number(s) ==
  CASE s.t = "decimal" -> Num(s.v)
    [] s.t = "Infinity" -> Infinity
    [] OTHER -> NaN

\* isFinite as !Number.isNaN: lets Infinity through
isFiniteNotNaN(n) == n.t # "NaN"

isFinite(n) == n.t = "num"

\* the segments requests carry
ZoomSegs ==
  {Undefined, TextSeg, InfinitySeg} \cup {Decimal(0), Decimal(TileScale)}
IndexSegs == {Undefined, TextSeg} \cup {Decimal(k * TileScale) : k \in 0 .. MaxTile}
ColumnSegs == IndexSegs \cup {Decimal(-TileScale)}
RowSegs == IndexSegs \cup {Decimal(1)}

\* a < b on JavaScript numbers: false when either side is NaN
Less(a, b) ==
  CASE a.t = "NaN" \/ b.t = "NaN" -> FALSE
    [] a.t = "num" /\ b.t = "num" -> a.v < b.v
    [] a.t = "-Infinity" -> b.t # "-Infinity"
    [] b.t = "Infinity" -> a.t # "Infinity"
    [] OTHER -> FALSE

\* 2 ** z is 0 below the smallest subnormal double (2 ** -1074) and Infinity
\* above the largest power of two a double holds (2 ** 1023)
Pow2Zero(z) == z < -1074
Pow2Infinite(z) == z > 1023

\* tile2lon where 2 ** z may be 0 or Infinity: (x / 0) * 360 - 180 is NaN for
\* x = 0 and an infinity otherwise; (x / Infinity) * 360 - 180 is -180
tile2lonDouble(x, z) ==
  IF Pow2Zero(z)
    THEN (IF x = 0 THEN NaN ELSE IF x > 0 THEN Infinity ELSE NegInfinity)
  ELSE IF Pow2Infinite(z) THEN Num(tile2lon(0, 0))
  ELSE Num(tile2lon(x, z))

\* tile2lat where 2 ** z may be 0 or Infinity: with 2 ** z = 0, n is NaN for
\* y = 0 and otherwise -Infinity (y > 0) or Infinity, whose sinh is the same
\* infinity and whose atan is -90 or 90 degrees; with 2 ** z = Infinity, n
\* is Math.PI
tile2latDouble(y, z) ==
  IF Pow2Zero(z)
    THEN (IF y = 0 THEN NaN ELSE IF y > 0 THEN Num(-90 * DegScale) ELSE Num(90 * DegScale))
  ELSE IF Pow2Infinite(z) THEN Num(tile2lat(0, 0))
  ELSE Num(tile2lat(y, z))

\* lonLatToWebMercator of JavaScript numbers: x keeps NaN and the infinities
\* of lon; Math.min and Math.max keep NaN, and so does y
lonLatToWebMercatorDouble(lon, lat) ==
  LET finite == lonLatToWebMercator(IF isFinite(lon) THEN lon.v ELSE 0,
                                    IF isFinite(lat) THEN lat.v ELSE 0)
  IN [x |-> IF isFinite(lon) THEN Num(finite.x) ELSE lon,
      y |-> IF isFinite(lat) THEN Num(finite.y) ELSE NaN]

\* lines 45-53 of GET for any zoom that passed validation
ComputeBBoxDouble(zoom, tileX, tileY) ==
  IF Pow2Zero(zoom) \/ Pow2Infinite(zoom)
    THEN LET north == tile2latDouble(tileY, zoom)
             south == tile2latDouble(tileY + TileScale, zoom)
             west == tile2lonDouble(tileX, zoom)
             east == tile2lonDouble(tileX + TileScale, zoom)
             sw == lonLatToWebMercatorDouble(west, south)
             ne == lonLatToWebMercatorDouble(east, north)
         IN <<sw.x, sw.y, ne.x, ne.y>>
    ELSE LET b == ComputeBBox(zoom, tileX, tileY)
         IN <<Num(b[1]), Num(b[2]), Num(b[3]), Num(b[4])>>

\* zooms whose power of two no double holds
ExtremeZooms == {-1075, 1024}

\* the tile addresses the transform alone is applied to
Tiles ==
  [z : (-1) .. MaxZoom,
   x : (-TileScale) .. (MaxIndex * TileScale),
   y : (-TileScale) .. (MaxIndex * TileScale)]
  \cup [z : ExtremeZooms, x : {-TileScale, 0, TileScale}, y : {-TileScale, 0, TileScale}]

---------------------------------------------------------------------------
(* Upstream replies and responses *)

Requests == {"r1", "r2"}

\* bytes of an upstream body: 0x89 and 'P', the first two of a PNG
UpstreamBodies == {<<>>, <<137, 80>>}
UpstreamStatuses == {0, 200, 201, 204, 404}

\* statuses for which the Response constructor refuses a body
NullBodyStatus == {101, 103, 204, 205, 304}

\* the Response objects fetch can resolve with: a null-body status and the
\* network-error status 0 carry no body
Replies ==
  {r \in [status : UpstreamStatuses, hasBody : BOOLEAN, body : UpstreamBodies] :
     /\ r.status \in NullBodyStatus \cup {0} => ~r.hasBody
     /\ ~r.hasBody => r.body = <<>>}

NoReply == [status |-> -1, hasBody |-> FALSE, body |-> <<>>]

\* Response.ok
Ok(r) == r.status \in 200 .. 299

\* Response.text(): the UTF-8 decoding of the body (a lone byte >= 0x80 decodes
\* to U+FFFD); the empty string when there is no body
Utf8Decode(b) == [i \in DOMAIN b |-> IF b[i] < 128 THEN b[i] ELSE 65533]
Text(r) == IF r.hasBody THEN Utf8Decode(r.body) ELSE <<>>

\* the error member of a JSON body
Literal(s) == [t |-> "literal", s |-> s, text |-> <<>>, n |-> 0]
UpstreamText(txt) == [t |-> "text", s |-> "", text |-> txt, n |-> 0]
\* `Upstream error ${upstream.status}`
Generic(n) == [t |-> "generic", s |-> "Upstream error ", text |-> <<>>, n |-> n]
NoError == [t |-> "none", s |-> "", text |-> <<>>, n |-> 0]

NoResp ==
  [kind |-> "none", status |-> 0, contentType |-> "", cacheControl |-> "",
   body |-> <<>>, error |-> NoError]

\* NextResponse.json({ error }, { status })
JsonResponse(err, status) ==
  [kind |-> "json", status |-> status, contentType |-> "application/json",
   cacheControl |-> "", body |-> <<>>, error |-> err]

\* ImageResponse without the status option: the constructor's default 200
ImageResponseDefaultStatus(r) ==
  [kind |-> "image", status |-> 200, contentType |-> "image/png",
   cacheControl |-> "public, max-age=600", body |-> r.body, error |-> NoError]

\* new Response(upstream.body, { status, headers })  (lines 76-82)
ImageResponse(r) ==
  [kind |-> "image", status |-> r.status, contentType |-> "image/png",
   cacheControl |-> "public, max-age=600", body |-> r.body, error |-> NoError]

\* ErrorMessage with ?? in place of ||: the empty text is kept
ErrorMessageNullish(m, r) == UpstreamText(m)

\* message || `Upstream error ${upstream.status}`  (line 71)
ErrorMessage(m, r) ==
  IF m # <<>> THEN UpstreamText(m) ELSE Generic(r.status)

\* upstream.status || 502  (line 72)
ErrorStatus(r) == IF r.status # 0 THEN r.status ELSE 502

NoMessage == [read |-> "none", text |-> <<>>]

NoBBox == <<>>
NoBoxes == [self |-> NoBBox, east |-> NoBBox, south |-> NoBBox]

\* process.env.UAVSAR_SERVICE_URL: not set, or the text it is set to
EnvUnset == [set |-> FALSE, value |-> ""]
EnvSet(url) == [set |-> TRUE, value |-> url]
Environments == {EnvUnset, EnvSet("https://uavsar.example/MapServer")}

\* UAVSAR_SERVICE_URL as the fallback alone, whatever the environment holds
UAVSAR_SERVICE_URL_FALLBACK_ONLY ==
  "https://maps.disasters.nasa.gov/ags03/rest/services/texas_flood_202507/uavsar/MapServer"

\* lines 3-5: process.env.UAVSAR_SERVICE_URL ?? "https://maps.disasters..."
UAVSAR_SERVICE_URL ==
  IF env.set THEN env.value
  ELSE "https://maps.disasters.nasa.gov/ags03/rest/services/texas_flood_202507/uavsar/MapServer"

\* the request handed to fetch (lines 54-66)
FetchRequest(b) ==
  [base |-> UAVSAR_SERVICE_URL, path |-> "/export", bbox |-> b, bboxSR |-> 102100, imageSR |-> 102100,
   size |-> <<TILE_SIZE, TILE_SIZE>>, format |-> "png32", transparent |-> TRUE,
   f |-> "image", accept |-> "image/png", cache |-> "no-store"]

---------------------------------------------------------------------------
(* The map page: targets, distances and the exported document *)

\* src/lib/shelters.ts and the low-water sites; coordinates in 1/10000 degree
shelters ==
  <<[id |-> "shelter_fumc", coords |-> <<300416, -991449>>, category |-> "shelter"],
    [id |-> "shelter_calvary", coords |-> <<300339, -991024>>, category |-> "shelter"],
    [id |-> "shelter_notredame", coords |-> <<300454, -991408>>, category |-> "shelter"],
    [id |-> "shelter_schreiner", coords |-> <<300409, -991331>>, category |-> "shelter"],
    [id |-> "shelter_comfort_hs", coords |-> <<299698, -989057>>, category |-> "shelter"]>>
lowWaterSites ==
  <<[id |-> "lowwater_louise_hays", coords |-> <<300465, -991472>>, category |-> "lowWater"],
    [id |-> "lowwater_riverside_drive", coords |-> <<300527, -991289>>, category |-> "lowWater"],
    [id |-> "lowwater_glen_road", coords |-> <<300558, -991334>>, category |-> "lowWater"]>>

\* line 1437: [...shelters, ...lowWaterSites]
allTargets == shelters \o lowWaterSites

\* the points Nominatim resolves the searched addresses to
Starts == {<<300474, -991403>>, <<300380, -991250>>}

\* haversine (lines 1009-1017) at the pairs of a start and a target, its
\* IEEE-double value rounded to whole metres
HaversineMetres ==
  (<<<<300474, -991403>>, <<300416, -991449>>>> :> 782)
  @@ (<<<<300474, -991403>>, <<300339, -991024>>>> :> 3945)
  @@ (<<<<300474, -991403>>, <<300454, -991408>>>> :> 228)
  @@ (<<<<300474, -991403>>, <<300409, -991331>>>> :> 1001)
  @@ (<<<<300474, -991403>>, <<299698, -989057>>>> :> 24181)
  @@ (<<<<300474, -991403>>, <<300465, -991472>>>> :> 672)
  @@ (<<<<300474, -991403>>, <<300527, -991289>>>> :> 1245)
  @@ (<<<<300474, -991403>>, <<300558, -991334>>>> :> 1146)
  @@ (<<<<300380, -991250>>, <<300416, -991449>>>> :> 1957)
  @@ (<<<<300380, -991250>>, <<300339, -991024>>>> :> 2223)
  @@ (<<<<300380, -991250>>, <<300454, -991408>>>> :> 1729)
  @@ (<<<<300380, -991250>>, <<300409, -991331>>>> :> 844)
  @@ (<<<<300380, -991250>>, <<299698, -989057>>>> :> 22438)
  @@ (<<<<300380, -991250>>, <<300465, -991472>>>> :> 2337)
  @@ (<<<<300380, -991250>>, <<300527, -991289>>>> :> 1677)
  @@ (<<<<300380, -991250>>, <<300558, -991334>>>> :> 2138)

haversine(p, q) == HaversineMetres[<<p, q>>]

Target(id) == CHOOSE t \in {allTargets[i] : i \in 1 .. Len(allTargets)} : t.id = id

\* null / undefined values of the page
NoCoords == <<>>
NoGeometry == <<>>
NoId == ""
NoNumber == -1
NoStats == [distance |-> NoNumber, duration |-> NoNumber]
NoPdf == [pages |-> 0, mediaBox |-> <<>>, text |-> <<>>]

\* a RouteOption before OSRM has answered (lines 1630-1633)
Option(start, target) ==
  [target |-> target.id, crowDistance |-> haversine(start, target.coords),
   geometry |-> NoGeometry, osrmDistance |-> NoNumber, durationSec |-> NoNumber]

\* insertion for a sort by decreasing crow-flight distance
RECURSIVE InsertOptionFarthestFirst(_, _)
InsertOptionFarthestFirst(sorted, o) ==
  IF sorted = <<>> THEN <<o>>
  ELSE IF Head(sorted).crowDistance - o.crowDistance < 0 THEN <<o>> \o sorted
  ELSE <<Head(sorted)>> \o InsertOptionFarthestFirst(Tail(sorted), o)

\* Array.prototype.sort with (a, b) => a.crowDistance - b.crowDistance: a
\* stable sort; InsertOption puts o behind the options that are not farther
RECURSIVE InsertOption(_, _)
InsertOption(sorted, o) ==
  IF sorted = <<>> THEN <<o>>
  ELSE IF o.crowDistance - Head(sorted).crowDistance < 0 THEN <<o>> \o sorted
  ELSE <<Head(sorted)>> \o InsertOption(Tail(sorted), o)

RECURSIVE SortOptions(_)
SortOptions(options) ==
  IF options = <<>> THEN <<>>
  ELSE InsertOption(SortOptions(SubSeq(options, 1, Len(options) - 1)), options[Len(options)])

\* slice(0, 3)
Slice3(s) == SubSeq(s, 1, Min(3, Len(s)))

\* lines 1629-1634: allTargets.map(...).sort(...), for each start
SortedTargets ==
  [start \in Starts |->
     SortOptions([i \in 1 .. Len(allTargets) |-> Option(start, allTargets[i])])]

\* lines 1629-1635: allTargets.map(...).sort(...).slice(0, 3)
Sorted(start) == Slice3(SortedTargets[start])

\* the route OSRM answers with for a start and a target: the detour by road
\* is larger to a low-water crossing than to a shelter
OsrmRoute(start, id) ==
  LET crow == haversine(start, Target(id).coords)
      metres == IF Target(id).category = "lowWater" THEN 2 * crow ELSE (13 * crow) \div 10
  IN [geometry |-> <<start, id>>, distance |-> metres, duration |-> metres \div 10]

\* { ...option, geometry, osrmDistance, durationSec } (lines 1643-1648, 1694-1699)
Enriched(option, route) ==
  [option EXCEPT !.geometry = route.geometry,
                 !.osrmDistance = route.distance,
                 !.durationSec = route.duration]

\* buildRouteCacheKey(start, destination)
CacheKey(start, id) == <<start, id>>

---------------------------------------------------------------------------
(* The exported document *)

\* the ten lines downloadRoutesPdf pushes for one option (lines 1756-1776)
OptionLines(index, option, selected) ==
  <<IF option.target = selected THEN "Name (selected)" ELSE "Name",
    "Category", "Address", "Phone", "Status", "OSRM route", "Crow distance",
    "Notes", "Source", "">>

RECURSIVE AllOptionLines(_, _, _)
AllOptionLines(options, index, selected) ==
  IF index > Len(options) THEN <<>>
  ELSE OptionLines(index, options[index], selected)
         \o AllOptionLines(options, index + 1, selected)

\* lines 1745-1777: the lines of the summary
PdfLines(options, start, selected) ==
  <<"Flood Evacuation & Low-Water Routes", "">>
    \o (IF start # NoCoords THEN <<"Start coordinates">> ELSE <<>>)
    \o <<"Generated", "Selected site", "">>
    \o AllOptionLines(options, 1, selected)

\* sanitizePdfLine: a line that is empty after trimming becomes one space
sanitizePdfLine(line) == IF line = "" THEN " " ELSE line

\* buildPdfDocument with 28 points between the lines
buildPdfDocumentWideLines(lines) ==
  LET cleaned == IF Len(lines) > 0 THEN lines ELSE <<" ">>
  IN [pages |-> 1, mediaBox |-> <<0, 0, 612, 792>>,
      text |-> [index \in 1 .. Len(cleaned) |->
                  [x |-> 72, y |-> 760 - (index - 1) * 28,
                   line |-> sanitizePdfLine(cleaned[index])]]]

\* lines 961-982: /Pages /Kids [3 0 R] /Count 1, one /Page with MediaBox
\* [0 0 612 792], and in its content one `1 0 0 1 72 y Tm (line) Tj` a line
buildPdfDocument(lines) ==
  LET cleaned == IF Len(lines) > 0 THEN lines ELSE <<" ">>
      startY == 760
      lineHeight == 18
  IN [pages |-> 1, mediaBox |-> <<0, 0, 612, 792>>,
      text |-> [index \in 1 .. Len(cleaned) |->
                  [x |-> 72, y |-> startY - (index - 1) * lineHeight,
                   line |-> sanitizePdfLine(cleaned[index])]]]

---------------------------------------------------------------------------
(* The map page: search, routes, selection and export *)

Stages == {"base", "sar", "geocode", "route"}

\* markStage(stage, action) (lines 1409-1423)
markStage(status, stage, action) ==
  [status EXCEPT ![stage] = IF action = "start" THEN "in-progress" ELSE "complete"]

\* layer.remove(): the layer leaves the map if it is on it
RECURSIVE RemoveLayer(_, _)
RemoveLayer(layers, layer) ==
  IF layers = <<>> THEN <<>>
  ELSE IF Head(layers) = layer THEN Tail(layers)
  ELSE <<Head(layers)>> \o RemoveLayer(Tail(layers), layer)

\* what drawRoute reads and writes
Drawn ==
  [routeLine |-> routeLine, linesOnMap |-> linesOnMap,
   pickedTarget |-> pickedTarget, selectedRouteStats |-> selectedRouteStats]

\* drawRoute(option) (lines 1506-1550), with the map its closure holds
drawRoute(d, option, mapSeen) ==
  IF ~mapSeen \/ option.geometry = NoGeometry \/ startMarker = NoCoords THEN d
  ELSE [routeLine |-> option.geometry,
        linesOnMap |->
          Append(IF d.routeLine # NoGeometry
                   THEN RemoveLayer(d.linesOnMap, d.routeLine)
                   ELSE d.linesOnMap,
                 option.geometry),
        pickedTarget |-> option.target,
        selectedRouteStats |->
          IF option.osrmDistance # NoNumber /\ option.durationSec # NoNumber
            THEN [distance |-> option.osrmDistance, duration |-> option.durationSec]
            ELSE NoStats]

SetDrawn(d) ==
  /\ routeLine' = d.routeLine
  /\ linesOnMap' = d.linesOnMap
  /\ pickedTarget' = d.pickedTarget
  /\ selectedRouteStats' = d.selectedRouteStats

\* beginBusy / endBusy (lines 1424-1433)
beginBusy ==
  /\ pendingOperations' = pendingOperations + 1
  /\ busy' = TRUE
endBusy ==
  /\ pendingOperations' = Max(0, pendingOperations - 1)
  /\ busy' = IF Max(0, pendingOperations - 1) = 0 THEN FALSE ELSE busy

\* the first option that has a geometry, or 0
RECURSIVE FirstWithGeometry(_, _)
FirstWithGeometry(options, i) ==
  IF i > Len(options) THEN 0
  ELSE IF options[i].geometry # NoGeometry THEN i
  ELSE FirstWithGeometry(options, i + 1)

\* routeOptions.find((item) => item.target.id === targetId), or 0
RECURSIVE FindOption(_, _, _)
FindOption(options, id, i) ==
  IF i > Len(options) THEN 0
  ELSE IF options[i].target = id THEN i
  ELSE FindOption(options, id, i + 1)

RouteInitial ==
  /\ map = FALSE
  /\ startMarker = NoCoords
  /\ routeLine = NoGeometry
  /\ markersOnMap = <<>>
  /\ linesOnMap = <<>>
  /\ startCoords = NoCoords
  /\ routeOptions = <<>>
  /\ selectedRouteId = NoId
  /\ pickedTarget = NoId
  /\ selectedRouteStats = NoStats
  /\ activeRouteRequest = 0
  /\ routeCache = {}
  /\ searches = {}
  /\ selects = <<>>
  /\ searching = FALSE
  /\ setStartMap = FALSE
  /\ geocodeError = ""
  /\ stageStatus = [s \in Stages |-> "idle"]
  /\ pendingOperations = 0
  /\ busy = FALSE
  /\ pdf = NoPdf

\* attachMap(instance): the map is ready
AttachMap ==
  /\ ~map
  /\ map' = TRUE
  /\ UNCHANGED <<startMarker, routeLine, markersOnMap, linesOnMap, startCoords,
                 routeOptions, selectedRouteId, pickedTarget, selectedRouteStats,
                 activeRouteRequest, routeCache, searches, selects, searching,
                 setStartMap, geocodeError, stageStatus, pendingOperations, busy, pdf>>
  /\ UNCHANGED notRouteVars

\* Controls.geocode up to `await fetch(url, ...)` (lines 1034-1044), for a
\* query that is not blank
Geocode ==
  /\ ~searching
  /\ activeRouteRequest < MaxSearches
  /\ geocodeError' = ""
  /\ searching' = TRUE
  /\ setStartMap' = map
  /\ stageStatus' = markStage(stageStatus, "geocode", "start")
  /\ UNCHANGED <<map, startMarker, routeLine, markersOnMap, linesOnMap, startCoords,
                 routeOptions, selectedRouteId, pickedTarget, selectedRouteStats,
                 activeRouteRequest, routeCache, searches, selects,
                 pendingOperations, busy, pdf>>
  /\ UNCHANGED notRouteVars

\* routeFrom with the previous start marker left on the map
routeFromKeepingMarker(start) ==
  /\ activeRouteRequest' = activeRouteRequest + 1
  /\ startCoords' = start
  /\ selectedRouteId' = NoId
  /\ selectedRouteStats' = NoStats
  /\ routeOptions' = <<>>
  /\ pickedTarget' = NoId
  /\ linesOnMap' = IF routeLine # NoGeometry THEN RemoveLayer(linesOnMap, routeLine)
                   ELSE linesOnMap
  /\ routeLine' = NoGeometry
  /\ markersOnMap' = Append(markersOnMap, start)
  /\ startMarker' = start
  /\ beginBusy
  /\ searches' = searches \cup
       {[id |-> activeRouteRequest + 1, start |-> start,
         cached |-> [i \in 1 .. Len(Sorted(start)) |->
                       CacheKey(start, Sorted(start)[i].target) \in routeCache]]}

\* routeFrom(startLat, startLon) up to `await Promise.all(...)` (lines
\* 1601-1650), stages apart: the requests to OSRM are out, those the cache
\* answers are known
routeFrom(start) ==
  /\ activeRouteRequest' = activeRouteRequest + 1
  /\ startCoords' = start
  /\ selectedRouteId' = NoId
  /\ selectedRouteStats' = NoStats
  /\ routeOptions' = <<>>
  /\ pickedTarget' = NoId
  /\ linesOnMap' = IF routeLine # NoGeometry THEN RemoveLayer(linesOnMap, routeLine)
                   ELSE linesOnMap
  /\ routeLine' = NoGeometry
  /\ markersOnMap' = Append(IF startMarker # NoCoords
                              THEN RemoveLayer(markersOnMap, startMarker)
                              ELSE markersOnMap,
                            start)
  /\ startMarker' = start
  /\ beginBusy
  /\ searches' = searches \cup
       {[id |-> activeRouteRequest + 1, start |-> start,
         cached |-> [i \in 1 .. Len(Sorted(start)) |->
                       CacheKey(start, Sorted(start)[i].target) \in routeCache]]}

\* lines 1045-1057: Nominatim answered with a place; setStart runs routeFrom
\* of the render geocode was called in, then the finally block
GeocodeFound(start) ==
  /\ searching
  /\ IF setStartMap
       THEN /\ routeFrom(start)
            /\ stageStatus' = markStage(markStage(stageStatus, "route", "start"),
                                        "geocode", "complete")
       ELSE /\ stageStatus' = markStage(stageStatus, "geocode", "complete")
            /\ UNCHANGED <<startMarker, routeLine, markersOnMap, linesOnMap, startCoords,
                           routeOptions, selectedRouteId, pickedTarget,
                           selectedRouteStats, activeRouteRequest, searches,
                           pendingOperations, busy>>
  /\ searching' = FALSE
  /\ UNCHANGED <<map, routeCache, selects, setStartMap, geocodeError, pdf>>
  /\ UNCHANGED notRouteVars

\* lines 1046-1049, 1053-1057: no result ("Address not found"), or fetch or
\* res.json() threw ("Geocoding error")
GeocodeFailed(text) ==
  /\ searching
  /\ geocodeError' = text
  /\ searching' = FALSE
  /\ stageStatus' = markStage(stageStatus, "geocode", "complete")
  /\ UNCHANGED <<map, startMarker, routeLine, markersOnMap, linesOnMap, startCoords,
                 routeOptions, selectedRouteId, pickedTarget, selectedRouteStats,
                 activeRouteRequest, routeCache, searches, selects, setStartMap,
                 pendingOperations, busy, pdf>>
  /\ UNCHANGED notRouteVars

\* the options of a search with OSRM's answers: found[i] tells whether
\* requestRoute returned a route for the i-th
EnrichedOptions(search, found) ==
  [i \in 1 .. Len(Sorted(search.start)) |->
     IF found[i]
       THEN Enriched(Sorted(search.start)[i],
                     OsrmRoute(search.start, Sorted(search.start)[i].target))
       ELSE Sorted(search.start)[i]]

\* routeFrom from the end of `await Promise.all(...)` (lines 1637-1664)
routeFromResume(requestId, found) ==
  LET search == CHOOSE s \in searches : s.id = requestId
      enriched == EnrichedOptions(search, found)
      initial == FirstWithGeometry(enriched, 1)
  IN /\ \E s \in searches : s.id = requestId
     /\ \A i \in DOMAIN found : search.cached[i] => found[i]
     /\ searches' = searches \ {search}
     /\ routeCache' = routeCache \cup
          {CacheKey(search.start, enriched[i].target) : i \in {j \in DOMAIN found : found[j]}}
     /\ IF activeRouteRequest # search.id
          THEN UNCHANGED <<routeOptions, selectedRouteId, routeLine, linesOnMap,
                           pickedTarget, selectedRouteStats>>
          ELSE /\ routeOptions' = enriched
               /\ IF initial # 0
                    THEN /\ selectedRouteId' = enriched[initial].target
                         /\ SetDrawn(drawRoute(Drawn, enriched[initial], TRUE))
                    ELSE /\ selectedRouteStats' = NoStats
                         /\ UNCHANGED <<selectedRouteId, routeLine, linesOnMap, pickedTarget>>
     /\ stageStatus' = markStage(stageStatus, "route", "complete")
     /\ endBusy
     /\ UNCHANGED <<map, startMarker, markersOnMap, startCoords, activeRouteRequest,
                    selects, searching, setStartMap, geocodeError, pdf>>
     /\ UNCHANGED notRouteVars

\* handleRouteSelect(targetId) up to its return or its `await requestRoute`
\* (lines 1673-1690); the closure holds the rendered routeOptions, startCoords
\* and map. Its caller is the option's button, disabled while busy (lines
\* 2185-2194).
handleRouteSelect(targetId) ==
  LET found == FindOption(routeOptions, targetId, 1)
      option == routeOptions[found]
  IN /\ ~busy
     /\ map /\ startCoords # NoCoords
     /\ found # 0
     /\ selectedRouteId' = targetId
     /\ IF option.geometry # NoGeometry
          THEN /\ SetDrawn(drawRoute(Drawn, option, TRUE))
               /\ UNCHANGED <<selects, pendingOperations, busy>>
          ELSE /\ Len(selects) < MaxSelects
               /\ beginBusy
               /\ selects' = Append(selects,
                    [option |-> option, startCoords |-> startCoords,
                     cached |-> CacheKey(startCoords, targetId) \in routeCache])
               /\ UNCHANGED <<routeLine, linesOnMap, pickedTarget, selectedRouteStats>>
     /\ UNCHANGED <<map, startMarker, markersOnMap, startCoords, routeOptions,
                    activeRouteRequest, routeCache, searches, searching, setStartMap,
                    geocodeError, stageStatus, pdf>>
     /\ UNCHANGED notRouteVars

\* prev.map((item) => (item.target.id === targetId ? updated : item))
ReplaceOption(options, updated) ==
  [i \in 1 .. Len(options) |->
     IF options[i].target = updated.target THEN updated ELSE options[i]]

\* handleRouteSelect from the end of `await requestRoute(...)` (lines
\* 1690-1705). startSnapshot and startCoords are the one constant of the
\* closure, so `startSnapshot !== startCoords` is false.
handleRouteSelectResume(k, found) ==
  LET select == selects[k]
      updated == Enriched(select.option,
                          OsrmRoute(select.startCoords, select.option.target))
      startSnapshot == select.startCoords
  IN /\ k \in 1 .. Len(selects)
     /\ select.cached => found
     /\ selects' = [i \in 1 .. Len(selects) - 1 |->
                      IF i < k THEN selects[i] ELSE selects[i + 1]]
     /\ IF ~found \/ startSnapshot # select.startCoords
          THEN UNCHANGED <<routeOptions, routeLine, linesOnMap, pickedTarget,
                           selectedRouteStats, routeCache>>
          ELSE /\ routeOptions' = ReplaceOption(routeOptions, updated)
               /\ SetDrawn(drawRoute(Drawn, updated, TRUE))
               /\ routeCache' = routeCache \cup
                    {CacheKey(select.startCoords, select.option.target)}
     /\ endBusy
     /\ UNCHANGED <<map, startMarker, markersOnMap, startCoords, selectedRouteId,
                    activeRouteRequest, searches, searching, setStartMap,
                    geocodeError, stageStatus, pdf>>
     /\ UNCHANGED notRouteVars

\* downloadRoutesPdf (lines 1731-1790)
downloadRoutesPdf ==
  /\ Len(routeOptions) > 0
  /\ pdf' = buildPdfDocument(PdfLines(routeOptions, startCoords, selectedRouteId))
  /\ UNCHANGED <<map, startMarker, routeLine, markersOnMap, linesOnMap, startCoords,
                 routeOptions, selectedRouteId, pickedTarget, selectedRouteStats,
                 activeRouteRequest, routeCache, searches, selects, searching,
                 setStartMap, geocodeError, stageStatus, pendingOperations, busy>>
  /\ UNCHANGED notRouteVars

NextRoute ==
  \/ AttachMap
  \/ Geocode
  \/ \E start \in Starts : GeocodeFound(start)
  \/ \E text \in {"Address not found", "Geocoding error"} : GeocodeFailed(text)
  \/ \E requestId \in 1 .. MaxSearches, found \in [1 .. 3 -> BOOLEAN] :
       routeFromResume(requestId, found)
  \/ \E targetId \in {allTargets[i].id : i \in 1 .. Len(allTargets)} :
       handleRouteSelect(targetId)
  \/ \E k \in 1 .. MaxSelects, found \in BOOLEAN : handleRouteSelectResume(k, found)
  \/ downloadRoutesPdf


---------------------------------------------------------------------------
(* The map page: the side-by-side layers *)

SarDates == {"2025-07-09", "2025-07-10"}
LayerKeys == {"showRoads", "showLabels", "showSar"}

NoSarError == ""
SarIdle == [loaded |-> FALSE, error |-> NoSarError]

\* what the layer-setup effect reads and writes
World ==
  [runs |-> runs, controls |-> controls, layersOnMap |-> layersOnMap,
   sarLayerRef |-> sarLayerRef, sarStatus |-> sarStatus, stageStatus |-> stageStatus]

SetWorld(w) ==
  /\ runs' = w.runs
  /\ controls' = w.controls
  /\ layersOnMap' = w.layersOnMap
  /\ sarLayerRef' = w.sarLayerRef
  /\ sarStatus' = w.sarStatus
  /\ stageStatus' = w.stageStatus

\* beforeLayers with the road and label overlays under the toggles
BeforeLayersToggled(settings) ==
  {"Imagery"}
    \cup (IF settings.showRoads THEN {"ImageryTransportation"} ELSE {})
    \cup (IF settings.showLabels THEN {"ImageryLabels"} ELSE {})

\* lines 1113-1115, 1253: [beforeImagery, beforeRoads, beforeLabels]
BeforeLayers(settings) == {"Imagery", "ImageryTransportation", "ImageryLabels"}

\* lines 1116-1118, 1254-1255: [afterImagery, afterRoads, afterLabels,
\* sarLayer].filter(Boolean)
AfterLayers(settings, sarLayer) ==
  {"Imagery"}
    \cup (IF settings.showRoads THEN {"ImageryTransportation"} ELSE {})
    \cup (IF settings.showLabels THEN {"ImageryLabels"} ELSE {})
    \cup (IF sarLayer THEN {"UAVSAR"} ELSE {})

\* finalizeBaseProgress / finalizeSarProgress of run i (lines 1130-1135,
\* 1173-1178)
FinalizeBase(w, i) ==
  IF w.runs[i].baseDone THEN w
  ELSE [w EXCEPT !.runs[i].baseDone = TRUE,
                 !.stageStatus = markStage(@, "base", "complete")]
FinalizeSar(w, i) ==
  IF ~w.runs[i].settings.showSar \/ w.runs[i].sarDone THEN w
  ELSE [w EXCEPT !.runs[i].sarDone = TRUE,
                 !.stageStatus = markStage(@, "sar", "complete")]

\* lines 1253-1300: the layers and the side-by-side control go on the map,
\* and run i has its cleanup
SetUp(w, i, sarLayer) ==
  LET settings == w.runs[i].settings
      before == BeforeLayers(settings)
      after == AfterLayers(settings, sarLayer)
  IN [w EXCEPT !.runs[i].phase = "set",
               !.runs[i].sar = sarLayer,
               !.layersOnMap = @ \cup {<<i, "before", name>> : name \in before}
                                 \cup {<<i, "after", name>> : name \in after},
               !.controls = @ \cup {[run |-> i, before |-> before, after |-> after]}]

\* the effect's cleanup for run i (lines 1349-1352, 1302-1347): `cancelled`
\* is set; the cleanup of the run exists only once it has set the layers up
Cleanup(w, i) ==
  LET cancelled == [w EXCEPT !.runs[i].cancelled = TRUE]
  IN IF w.runs[i].phase # "set" THEN cancelled
     ELSE LET removed ==
                [cancelled EXCEPT
                   !.runs[i].phase = "cleaned",
                   !.controls = {c \in @ : c.run # i},
                   !.layersOnMap = {l \in @ : l[1] # i},
                   !.sarLayerRef = IF w.runs[i].sar /\ @ = i THEN 0 ELSE @]
          IN FinalizeSar(FinalizeBase(removed, i), i)

\* the effect runs (lines 1106-1181, 1250-1300): run() up to its first
\* await, or to its end when the UAVSAR layer is off
StartRun(w, settings) ==
  LET i == Len(w.runs) + 1
      run == [settings |-> settings, phase |-> "imports", cancelled |-> FALSE,
              baseDone |-> FALSE, sarDone |-> FALSE, pendingBase |-> 2, sar |-> FALSE]
      started ==
        [w EXCEPT !.runs = Append(@, run),
                  !.stageStatus = markStage(@, "base", "start"),
                  !.layersOnMap = {l \in @ : ~(l[1] = w.sarLayerRef /\ l[3] = "UAVSAR")},
                  !.sarLayerRef = 0,
                  !.sarStatus = SarIdle]
  IN IF settings.showSar
       THEN [started EXCEPT !.stageStatus = markStage(@, "sar", "start")]
       ELSE SetUp(started, i, FALSE)

\* the catch block of run i (lines 1237-1248) and the code after it
Caught(w, i, reason) ==
  LET reported == IF w.runs[i].cancelled THEN w
                  ELSE [w EXCEPT !.sarStatus = [loaded |-> FALSE, error |-> reason]]
  IN SetUp(FinalizeSar([reported EXCEPT !.sarLayerRef = 0], i), i, FALSE)

LayersInitial ==
  /\ layerSettings = [showRoads |-> TRUE, showLabels |-> TRUE, showSar |-> TRUE,
                      sarDate |-> "2025-07-10"]
  /\ sarStatus = SarIdle
  /\ runs = <<>>
  /\ controls = {}
  /\ layersOnMap = {}
  /\ sarLayerRef = 0

\* SideBySideLayers is mounted once the map is there: its effect runs
MountLayers ==
  /\ map
  /\ runs = <<>>
  /\ SetWorld(StartRun(World, layerSettings))
  /\ UNCHANGED layerSettings
  /\ UNCHANGED <<env, handlerVars, tileVars, routeVarsButStages>>

\* the effect runs again for changed settings: cleanup of the last run, then
\* a new run
Rerun(w, settings) ==
  IF w.runs = <<>> THEN w
  ELSE StartRun(Cleanup(w, Len(w.runs)), settings)

\* toggleLayerSetting(key) (lines 1438-1449) and the effect it triggers
toggleLayerSetting(key) ==
  LET next == [layerSettings EXCEPT ![key] = ~@]
      reset == IF key = "showSar" THEN [World EXCEPT !.sarStatus = SarIdle] ELSE World
  IN /\ Len(runs) < MaxRuns
     /\ layerSettings' = next
     /\ SetWorld(Rerun(reset, next))
     /\ UNCHANGED <<env, handlerVars, tileVars, routeVarsButStages>>

\* updateSarDate(date) (lines 1450-1453) and the effect it triggers when the
\* date is another one
updateSarDate(date) ==
  LET next == [layerSettings EXCEPT !.sarDate = date]
      reset == [World EXCEPT !.sarStatus = SarIdle]
  IN /\ Len(runs) < MaxRuns
     /\ layerSettings' = next
     /\ SetWorld(IF date = layerSettings.sarDate THEN reset ELSE Rerun(reset, next))
     /\ UNCHANGED <<env, handlerVars, tileVars, routeVarsButStages>>

\* lines 1182-1186: the two imports resolved, or one rejected
ImportsSettled(i, ok) ==
  /\ i \in 1 .. Len(runs)
  /\ runs[i].phase = "imports"
  /\ SetWorld(IF ~ok THEN Caught(World, i, "import failed")
              ELSE IF runs[i].cancelled THEN [World EXCEPT !.runs[i].phase = "returned"]
              ELSE [World EXCEPT !.runs[i].phase = "fetch"])
  /\ UNCHANGED layerSettings
  /\ UNCHANGED <<env, handlerVars, tileVars, routeVarsButStages>>

\* lines 1189-1192: fetch of the raster settled; a response that is not ok
\* and a rejection both reach the catch block, cancelled or not
FetchSettled(i, ok) ==
  /\ i \in 1 .. Len(runs)
  /\ runs[i].phase = "fetch"
  /\ SetWorld(IF ~ok THEN Caught(World, i, "HTTP error")
              ELSE [World EXCEPT !.runs[i].phase = "parse"])
  /\ UNCHANGED layerSettings
  /\ UNCHANGED <<env, handlerVars, tileVars, routeVarsButStages>>

\* lines 1193-1236: arrayBuffer and parseGeoraster settled: a rejection
\* reaches the catch block; otherwise a cancelled run returns, and one that
\* is not creates the layer, keeps it in sarLayerRef and sets the layers up
ParseSettled(i, ok) ==
  /\ i \in 1 .. Len(runs)
  /\ runs[i].phase = "parse"
  /\ SetWorld(IF ~ok THEN Caught(World, i, "parse failed")
              ELSE IF runs[i].cancelled THEN [World EXCEPT !.runs[i].phase = "returned"]
              ELSE SetUp([World EXCEPT !.sarLayerRef = i,
                                       !.sarStatus = [loaded |-> TRUE, error |-> NoSarError]],
                         i, TRUE))
  /\ UNCHANGED layerSettings
  /\ UNCHANGED <<env, handlerVars, tileVars, routeVarsButStages>>

\* a "load" event of beforeImagery or afterImagery of run i (lines 1143-1152)
BaseLoad(i) ==
  /\ i \in 1 .. Len(runs)
  /\ runs[i].phase = "set"
  /\ runs[i].pendingBase > 0
  /\ SetWorld(LET counted == [World EXCEPT !.runs[i].pendingBase = @ - 1]
              IN IF counted.runs[i].pendingBase <= 0 THEN FinalizeBase(counted, i)
                 ELSE counted)
  /\ UNCHANGED layerSettings
  /\ UNCHANGED <<env, handlerVars, tileVars, routeVarsButStages>>

\* the "load" event of the UAVSAR layer of run i (line 1235)
SarLoad(i) ==
  /\ i \in 1 .. Len(runs)
  /\ runs[i].phase = "set"
  /\ runs[i].sar /\ ~runs[i].sarDone
  /\ SetWorld(FinalizeSar(World, i))
  /\ UNCHANGED layerSettings
  /\ UNCHANGED <<env, handlerVars, tileVars, routeVarsButStages>>

NextLayers ==
  \/ AttachMap
  \/ MountLayers
  \/ \E key \in LayerKeys : toggleLayerSetting(key)
  \/ \E date \in SarDates : updateSarDate(date)
  \/ \E i \in 1 .. MaxRuns, ok \in BOOLEAN : ImportsSettled(i, ok)
  \/ \E i \in 1 .. MaxRuns, ok \in BOOLEAN : FetchSettled(i, ok)
  \/ \E i \in 1 .. MaxRuns, ok \in BOOLEAN : ParseSettled(i, ok)
  \/ \E i \in 1 .. MaxRuns : BaseLoad(i)
  \/ \E i \in 1 .. MaxRuns : SarLoad(i)

---------------------------------------------------------------------------
(* The handler *)

HandlerInitial ==
  /\ pc = [r \in Requests |-> "idle"]
  /\ params = [r \in Requests |-> [z |-> Undefined, x |-> Undefined, y |-> Undefined]]
  /\ bbox = [r \in Requests |-> NoBBox]
  /\ fetches = [r \in Requests |-> <<>>]
  /\ outstanding = 0
  /\ upstream = [r \in Requests |-> NoReply]
  /\ message = [r \in Requests |-> NoMessage]
  /\ resp = [r \in Requests |-> NoResp]
  /\ thrown = [r \in Requests |-> "none"]

TileInitial ==
  /\ tile = [z |-> 0, x |-> 0, y |-> 0]
  /\ boxes = NoBoxes

Init ==
  /\ env \in Environments
  /\ HandlerInitial
  /\ TileInitial
  /\ RouteInitial
  /\ LayersInitial

\* Missing that looks at z alone
MissingZoomOnly(p) == p.z = Undefined

\* z === undefined || x === undefined || y === undefined  (line 33)
Missing(p) == p.z = Undefined \/ p.x = Undefined \/ p.y = Undefined

\* Invalid with a range check on column and row
InvalidOrOutOfRange(p) ==
  \/ ~isFinite(Number(p.z)) \/ ~isFinite(Number(p.x)) \/ ~isFinite(Number(p.y))
  \/ Number(p.x).v < 0 \/ Number(p.y).v < 0

\* !Number.isFinite(zoom) || !Number.isFinite(tileX) || ...  (line 41)
Invalid(p) ==
  ~isFinite(Number(p.z)) \/ ~isFinite(Number(p.x)) \/ ~isFinite(Number(p.y))

\* GET returns a response
Return(r, response) ==
  /\ resp' = [resp EXCEPT ![r] = response]
  /\ pc' = [pc EXCEPT ![r] = "done"]
  /\ UNCHANGED thrown

\* an exception leaves GET: its promise rejects and no response is made
Throw(r, e) ==
  /\ thrown' = [thrown EXCEPT ![r] = e]
  /\ pc' = [pc EXCEPT ![r] = "threw"]
  /\ UNCHANGED resp

\* Receive with the bounding box kept in one module-level variable that
\* every invocation overwrites
ReceiveSharedBBox(r, z, x, y) ==
  /\ pc[r] = "idle"
  /\ params' = [params EXCEPT ![r] = [z |-> z, x |-> x, y |-> y]]
  /\ IF Missing(params'[r])
       THEN /\ Return(r, JsonResponse(Literal("Missing tile coordinates"), 400))
            /\ UNCHANGED <<bbox, fetches, outstanding>>
     ELSE IF Invalid(params'[r])
       THEN /\ Return(r, JsonResponse(Literal("Invalid tile coordinates"), 400))
            /\ UNCHANGED <<bbox, fetches, outstanding>>
     ELSE LET b == ComputeBBox(Number(z).v, Number(x).v, Number(y).v)
          IN /\ bbox' = [q \in Requests |-> b]
             /\ fetches' = [fetches EXCEPT ![r] = Append(@, FetchRequest(b))]
             /\ outstanding' = outstanding + 1
             /\ pc' = [pc EXCEPT ![r] = "fetch"]
             /\ UNCHANGED <<resp, thrown>>
  /\ UNCHANGED <<upstream, message, env, tileVars, routeVars, layerVars>>

\* lines 32-66: GET up to `await fetch(url, ...)`
Receive(r, z, x, y) ==
  /\ pc[r] = "idle"
  /\ params' = [params EXCEPT ![r] = [z |-> z, x |-> x, y |-> y]]
  /\ IF Missing(params'[r])
       THEN /\ Return(r, JsonResponse(Literal("Missing tile coordinates"), 400))
            /\ UNCHANGED <<bbox, fetches, outstanding>>
     ELSE IF Invalid(params'[r])
       THEN /\ Return(r, JsonResponse(Literal("Invalid tile coordinates"), 400))
            /\ UNCHANGED <<bbox, fetches, outstanding>>
     ELSE LET b == ComputeBBox(Number(z).v, Number(x).v, Number(y).v)
          IN /\ bbox' = [bbox EXCEPT ![r] = b]
             /\ fetches' = [fetches EXCEPT ![r] = Append(@, FetchRequest(b))]
             /\ outstanding' = outstanding + 1
             /\ pc' = [pc EXCEPT ![r] = "fetch"]
             /\ UNCHANGED <<resp, thrown>>
  /\ UNCHANGED <<upstream, message, env, tileVars, routeVars, layerVars>>

\* lines 61-68, 76-82: fetch resolves with a Response; a 2xx reply with a
\* body is relayed, any other goes on to `await upstream.text()`
FetchResolve(r, reply) ==
  /\ pc[r] = "fetch"
  /\ upstream' = [upstream EXCEPT ![r] = reply]
  /\ outstanding' = outstanding - 1
  /\ IF ~Ok(reply) \/ ~reply.hasBody
       THEN /\ pc' = [pc EXCEPT ![r] = "text"]
            /\ UNCHANGED <<resp, thrown>>
       ELSE Return(r, ImageResponse(reply))
  /\ UNCHANGED <<params, bbox, fetches, message, env, tileVars, routeVars, layerVars>>

\* FetchReject that fetches again
FetchRejectRetry(r) ==
  /\ pc[r] = "fetch"
  /\ fetches' = [fetches EXCEPT ![r] = Append(@, FetchRequest(bbox[r]))]
  /\ UNCHANGED <<pc, params, bbox, outstanding, upstream, message, resp, thrown, env, tileVars, routeVars, layerVars>>

\* line 61: fetch rejects (DNS, timeout, connection refused); GET has no
\* try/catch around the await, so the rejection leaves the handler
FetchReject(r) ==
  /\ pc[r] = "fetch"
  /\ outstanding' = outstanding - 1
  /\ Throw(r, "TypeError: fetch failed")
  /\ UNCHANGED <<params, bbox, fetches, upstream, message, env, tileVars, routeVars, layerVars>>

\* lines 70-73: NextResponse.json({ error }, { status }) constructs a
\* Response with a body; the constructor throws a TypeError when the status
\* is a null-body status
RespondError(r, m) ==
  IF ErrorStatus(upstream[r]) \in NullBodyStatus
    THEN Throw(r, "TypeError: Invalid response status code")
    ELSE Return(r, JsonResponse(ErrorMessage(m, upstream[r]), ErrorStatus(upstream[r])))

\* line 69: upstream.text() resolves
TextResolve(r) ==
  /\ pc[r] = "text"
  /\ message' = [message EXCEPT ![r] = [read |-> "resolved", text |-> Text(upstream[r])]]
  /\ RespondError(r, message'[r].text)
  /\ UNCHANGED <<params, bbox, fetches, outstanding, upstream, env, tileVars, routeVars, layerVars>>

\* line 69: upstream.text() rejects (the body stream fails): .catch(() => "")
TextReject(r) ==
  /\ pc[r] = "text"
  /\ upstream[r].hasBody
  /\ message' = [message EXCEPT ![r] = [read |-> "rejected", text |-> <<>>]]
  /\ RespondError(r, message'[r].text)
  /\ UNCHANGED <<params, bbox, fetches, outstanding, upstream, env, tileVars, routeVars, layerVars>>

Next ==
  \/ \E r \in Requests, z \in ZoomSegs, x \in ColumnSegs, y \in RowSegs :
       Receive(r, z, x, y)
  \/ \E r \in Requests, reply \in Replies : FetchResolve(r, reply)
  \/ \E r \in Requests : FetchReject(r)
  \/ \E r \in Requests : TextResolve(r)
  \/ \E r \in Requests : TextReject(r)

Spec == Init /\ [][Next]_vars

---------------------------------------------------------------------------
(* The transform alone: a tile, its east neighbour and its south neighbour *)

InitTile ==
  /\ env = EnvUnset
  /\ HandlerInitial
  /\ tile \in Tiles
  /\ boxes = NoBoxes
  /\ RouteInitial
  /\ LayersInitial

Transform ==
  /\ boxes = NoBoxes
  /\ boxes' = [self |-> ComputeBBoxDouble(tile.z, tile.x, tile.y),
               east |-> ComputeBBoxDouble(tile.z, tile.x + TileScale, tile.y),
               south |-> ComputeBBoxDouble(tile.z, tile.x, tile.y + TileScale)]
  /\ UNCHANGED <<env, handlerVars, tile, routeVars, layerVars>>

NextTile == Transform

SpecTile == InitTile /\ [][NextTile]_vars

---------------------------------------------------------------------------
(* The map page alone *)

InitPage ==
  /\ env = EnvUnset
  /\ HandlerInitial
  /\ TileInitial
  /\ RouteInitial
  /\ LayersInitial

\* search, routes, selection and export
SpecRoute == InitPage /\ [][NextRoute]_vars

\* the side-by-side layers
SpecLayers == InitPage /\ [][NextLayers]_vars

---------------------------------------------------------------------------
(* Properties of the endpoint *)

Started(r) == pc[r] # "idle"
Replied(r) == upstream[r] # NoReply
Absent(seg) == seg.t = "undefined"
Finite(seg) == seg.t = "decimal"
AllPresent(r) == ~Absent(params[r].z) /\ ~Absent(params[r].x) /\ ~Absent(params[r].y)
AllFinite(r) == Finite(params[r].z) /\ Finite(params[r].x) /\ Finite(params[r].y)
Is400(r, text) ==
  /\ pc[r] = "done"
  /\ resp[r].kind = "json"
  /\ resp[r].status = 400
  /\ resp[r].error = [t |-> "literal", s |-> text, text |-> <<>>, n |-> 0]
UpstreamFailed(r) ==
  Replied(r) /\ (upstream[r].status \notin 200 .. 299 \/ ~upstream[r].hasBody)
InFlight == {r \in Requests : pc[r] \in {"fetch", "text"}}

\* C1: a request lacking any of z, x, y is answered 400 "Missing tile
\* coordinates" and makes no upstream fetch, whatever the other parameters
C1_MissingRejected ==
  \A r \in Requests :
    Started(r) /\ ~AllPresent(r) =>
      /\ Is400(r, "Missing tile coordinates")
      /\ fetches[r] = <<>>
      /\ bbox[r] = NoBBox

\* y is absent while x is text that is no number: the missing check came first
C1_Witness ==
  \E r \in Requests :
    /\ Absent(params[r].y) /\ params[r].x = TextSeg /\ Finite(params[r].z)
    /\ Is400(r, "Missing tile coordinates")

\* C2: with z, x, y all present and one of them not a finite number, the
\* answer is 400 "Invalid tile coordinates"; no bounding box is computed and
\* no upstream fetch is made
C2_InvalidRejected ==
  \A r \in Requests :
    Started(r) /\ AllPresent(r) /\ ~AllFinite(r) =>
      /\ Is400(r, "Invalid tile coordinates")
      /\ bbox[r] = NoBBox
      /\ fetches[r] = <<>>

\* zoom "Infinity" with numeric column and row
C2_Witness ==
  \E r \in Requests :
    /\ params[r].z = InfinitySeg /\ Finite(params[r].x) /\ Finite(params[r].y)
    /\ Is400(r, "Invalid tile coordinates")

\* C3: a request fetches at most once, exactly once when its coordinates are
\* valid, never again after an upstream or network failure; the unsettled
\* fetches never outnumber the requests in flight
C3_FetchOnce ==
  /\ \A r \in Requests :
       /\ Len(fetches[r]) <= 1
       /\ Started(r) /\ AllFinite(r) => Len(fetches[r]) = 1
       /\ Started(r) /\ ~AllFinite(r) => Len(fetches[r]) = 0
  /\ outstanding >= 0
  /\ outstanding <= Cardinality(InFlight)

\* one request ended by a network failure, one by an upstream failure, each
\* having fetched once
C3_Witness ==
  \E r, q \in Requests :
    /\ pc[r] = "threw" /\ ~Replied(r) /\ Len(fetches[r]) = 1
    /\ pc[q] = "done" /\ UpstreamFailed(q) /\ Len(fetches[q]) = 1

\* C4: a 2xx upstream reply with a body is relayed with the upstream's
\* status, Content-Type image/png, Cache-Control "public, max-age=600" and
\* exactly the upstream's bytes
C4_SuccessRelay ==
  \A r \in Requests :
    Replied(r) /\ upstream[r].status \in 200 .. 299 /\ upstream[r].hasBody =>
      /\ pc[r] = "done"
      /\ resp[r].kind = "image"
      /\ resp[r].status = upstream[r].status
      /\ resp[r].contentType = "image/png"
      /\ resp[r].cacheControl = "public, max-age=600"
      /\ resp[r].body = upstream[r].body

\* a 201 reply with the two bytes 0x89 'P' was relayed
C4_Witness ==
  \E r \in Requests :
    /\ Replied(r) /\ upstream[r].status = 201 /\ upstream[r].body = <<137, 80>>
    /\ resp[r].kind = "image"

\* C5: once an upstream failure (non-2xx status, or no body) has been
\* handled, the response is a JSON error whose status is the upstream's, or
\* 502 when the upstream status is 0
C5_FailureStatus ==
  \A r \in Requests :
    UpstreamFailed(r) /\ pc[r] # "text" =>
      /\ pc[r] = "done"
      /\ resp[r].kind = "json"
      /\ resp[r].status = (IF upstream[r].status = 0 THEN 502 ELSE upstream[r].status)

\* C6: the error member of the JSON body of an upstream failure is the
\* upstream's text when that is non-empty, and "Upstream error <status>" when
\* it is empty or could not be read; a failed read never aborts the handler
C6_ErrorText ==
  \A r \in Requests :
    /\ UpstreamFailed(r) /\ pc[r] = "done" =>
         /\ resp[r].kind = "json"
         /\ message[r].read = "resolved" /\ Utf8Decode(upstream[r].body) # <<>> =>
              /\ resp[r].error.t = "text"
              /\ resp[r].error.text = Utf8Decode(upstream[r].body)
         /\ message[r].read = "rejected" \/ Utf8Decode(upstream[r].body) = <<>> =>
              /\ resp[r].error.t = "generic"
              /\ resp[r].error.s = "Upstream error "
              /\ resp[r].error.n = upstream[r].status
    /\ message[r].read = "rejected" => pc[r] = "done" /\ thrown[r] = "none"

\* one 404 whose text was read and relayed, one whose read failed
C6_Witness ==
  \E r, q \in Requests :
    /\ upstream[r].status = 404 /\ message[r].read = "resolved"
    /\ resp[r].error.text = <<65533, 80>>
    /\ upstream[q].status = 404 /\ upstream[q].body = <<137, 80>>
    /\ message[q].read = "rejected" /\ resp[q].error.t = "generic"

\* C7: when fetch rejects, the handler ends by returning a 5xx response and
\* no exception leaves it
C7_NetworkFailure5xx ==
  \A r \in Requests :
    fetches[r] # <<>> /\ pc[r] \notin {"fetch", "text"} /\ ~Replied(r) =>
      /\ pc[r] = "done"
      /\ thrown[r] = "none"
      /\ resp[r].status \in 500 .. 599

\* C8: z, x, y that all convert to finite numbers are never answered with a
\* validation error, whatever their sign, fraction or range: the bounding box
\* is computed and forwarded upstream
C8_NoRangeValidation ==
  \A r \in Requests :
    Started(r) /\ AllFinite(r) =>
      /\ ~(resp[r].kind = "json" /\ resp[r].error.t = "literal")
      /\ Len(bbox[r]) = 4
      /\ Len(fetches[r]) = 1
      /\ fetches[r][1].bbox = bbox[r]

\* column -1 (negative, outside [0, 2^zoom)) and row 1/2 (fractional)
C8_Witness ==
  \E r \in Requests :
    /\ params[r].x = Decimal(-TileScale) /\ params[r].y = Decimal(1)
    /\ Finite(params[r].z)
    /\ Len(fetches[r]) = 1 /\ Len(fetches[r][1].bbox) = 4

\* C9: the bbox of a fetch in flight is minX, minY, maxX, maxY in that order, with
\* (minX, minY) the projection of (longitude of column, latitude of row + 1)
\* and (maxX, maxY) that of (longitude of column + 1, latitude of row)
C9_BBoxCorners ==
  \A r \in Requests :
    pc[r] = "fetch" =>
      LET z == params[r].z.v
          x == params[r].x.v
          y == params[r].y.v
          b == fetches[r][1].bbox
          sw == lonLatToWebMercator(tile2lon(x, z), tile2lat(y + TileScale, z))
          ne == lonLatToWebMercator(tile2lon(x + TileScale, z), tile2lat(y, z))
      IN b = <<sw.x, sw.y, ne.x, ne.y>>

\* the world tile 0/0/0 was sent with four values, min below max
C9_Witness ==
  \E r \in Requests :
    /\ pc[r] = "fetch" /\ Len(fetches[r]) = 1
    /\ params[r].z = Decimal(0) /\ params[r].x = Decimal(0) /\ params[r].y = Decimal(0)
    /\ fetches[r][1].bbox[1] < fetches[r][1].bbox[3]
    /\ fetches[r][1].bbox[2] < fetches[r][1].bbox[4]

\* C10: a tile's maxX is the minX of its east neighbour and its minY is the
\* maxY of its south neighbour
C10_SharedEdges ==
  boxes # NoBoxes =>
    /\ boxes.self[3] = boxes.east[1]
    /\ boxes.self[2] = boxes.south[4]

\* tile 2/1/1 and its neighbours 2/2/1 and 2/1/2 were transformed
C10_Witness ==
  /\ tile = [z |-> 2, x |-> TileScale, y |-> TileScale]
  /\ boxes # NoBoxes
  /\ Less(boxes.self[1], boxes.self[3])
  /\ Less(boxes.south[2], boxes.self[2])

\* a tile of the pyramid: integer zoom >= 0, integer column and row in
\* 0 .. 2^zoom - 1 (every column and row >= 0 where 2 ** zoom is Infinity)
InPyramid(t) ==
  /\ t.z >= 0
  /\ t.x % TileScale = 0 /\ t.y % TileScale = 0
  /\ 0 <= t.x /\ 0 <= t.y
  /\ \/ Pow2Infinite(t.z)
     \/ t.x < TileScale * Pow2Num(t.z) /\ t.y < TileScale * Pow2Num(t.z)

\* C11 as stated, for every integer zoom >= 0: the bounding box of a tile of
\* the pyramid is non-degenerate, minX < maxX and minY < maxY
C11_NonDegenerateAnyZoom ==
  boxes # NoBoxes /\ InPyramid(tile) =>
    /\ Less(boxes.self[1], boxes.self[3])
    /\ Less(boxes.self[2], boxes.self[4])

\* C11: at the zooms whose power of two a double holds, the bounding box of
\* a tile of the pyramid is non-degenerate: minX < maxX and minY < maxY
C11_NonDegenerate ==
  boxes # NoBoxes /\ InPyramid(tile) /\ ~Pow2Infinite(tile.z) =>
    /\ Less(boxes.self[1], boxes.self[3])
    /\ Less(boxes.self[2], boxes.self[4])

\* the last tile of the deepest zoom, 2^MaxZoom - 1 in column and row, was
\* transformed
C11_Witness ==
  /\ boxes # NoBoxes
  /\ InPyramid(tile)
  /\ tile.z = MaxZoom
  /\ tile.x = TileScale * (Pow2Num(MaxZoom) - 1)
  /\ tile.y = TileScale * (Pow2Num(MaxZoom) - 1)
  /\ Less(boxes.self[1], boxes.self[3])

\* C12: the bounding box of every triple that passes validation is four
\* finite numbers, neither NaN nor an infinity
C12_AlwaysFinite ==
  boxes # NoBoxes => \A i \in 1 .. 4 : isFinite(boxes.self[i])

\* C13: tile 0/0/0 projects to the whole Web Mercator world, -pi * R and
\* +pi * R with R = 6378137: minX and minY are -20037508.34 and maxX and
\* maxY 20037508.34, to within a metre
C13_FullWorld ==
  boxes # NoBoxes /\ tile = [z |-> 0, x |-> 0, y |-> 0] =>
    /\ \A i \in 1 .. 4 : isFinite(boxes.self[i])
    /\ Abs(boxes.self[1].v + 20037508) <= 1
    /\ Abs(boxes.self[2].v + 20037508) <= 1
    /\ Abs(boxes.self[3].v - 20037508) <= 1
    /\ Abs(boxes.self[4].v - 20037508) <= 1

\* tile 0/0/0 was transformed; its box is symmetric about the origin
C13_Witness ==
  /\ tile = [z |-> 0, x |-> 0, y |-> 0]
  /\ boxes # NoBoxes
  /\ boxes.self[1].v = -boxes.self[3].v
  /\ boxes.self[2].v = -boxes.self[4].v

\* what a request has computed, sent, received and answered
Own(r) ==
  <<params[r], bbox[r], fetches[r], upstream[r], message[r], resp[r], thrown[r]>>

\* requests with identical coordinates have the identical bbox and the
\* identical upstream request; with the identical upstream reply (and the
\* same outcome of reading its text) they have the identical outcome
SameInSameOut ==
  \A r, q \in Requests :
    Started(r) /\ Started(q) /\ params[r] = params[q] =>
      /\ bbox[r] = bbox[q]
      /\ fetches[r] = fetches[q]
      /\ pc[r] \in {"done", "threw"} /\ pc[q] \in {"done", "threw"}
           /\ upstream[r] = upstream[q] /\ message[r].read = message[q].read =>
             resp[r] = resp[q] /\ thrown[r] = thrown[q]

\* a step leaves alone every request other than the one that takes it
OthersUntouched ==
  \A q \in Requests : pc'[q] = pc[q] => Own(q)' = Own(q)

\* C14: the handler is stateless and deterministic: identical coordinates
\* give the identical bbox and upstream URL, the response depends only on
\* the request's coordinates and the upstream's reply to it, and no step of
\* one request changes the bbox, URL or response of another
C14_Stateless == [](SameInSameOut) /\ [][OthersUntouched]_vars

\* two requests for tile 0/0/0 are both answered, one relaying an image,
\* the other an upstream 404
C14_Witness ==
  /\ params["r1"] = params["r2"]
  /\ bbox["r1"] # NoBBox /\ bbox["r1"] = bbox["r2"]
  /\ pc["r1"] = "done" /\ pc["r2"] = "done"
  /\ resp["r1"].kind = "image" /\ resp["r2"].kind = "json"

\* C15: every upstream request goes to <base URL>/export with the bbox,
\* bboxSR=102100, imageSR=102100, size=256,256, format=png32,
\* transparent=true, f=image and cache "no-store"; the base URL is the
\* environment's UAVSAR_SERVICE_URL when set, the fixed default otherwise
C15_UpstreamRequest ==
  \A r \in Requests : \A i \in 1 .. Len(fetches[r]) :
    LET f == fetches[r][i] IN
      /\ f.base = IF env.set THEN env.value
                  ELSE "https://maps.disasters.nasa.gov/ags03/rest/services/texas_flood_202507/uavsar/MapServer"
      /\ f.path = "/export"
      /\ f.bbox = bbox[r] /\ Len(f.bbox) = 4
      /\ f.bboxSR = 102100 /\ f.imageSR = 102100
      /\ f.size = <<256, 256>>
      /\ f.format = "png32" /\ f.transparent = TRUE /\ f.f = "image"
      /\ f.cache = "no-store"

\* with UAVSAR_SERVICE_URL set, a request went to that base
C15_Witness ==
  /\ env.set
  /\ \E r \in Requests :
       /\ Len(fetches[r]) = 1
       /\ fetches[r][1].base = env.value
       /\ fetches[r][1].base # UAVSAR_SERVICE_URL_FALLBACK_ONLY

---------------------------------------------------------------------------
(* The map page: search, routes and export *)

\* the options are the min(3, N) targets nearest to start by haversine
\* distance, each once, in nondecreasing distance
NearestOptions(options, start) ==
  LET chosen == {options[i].target : i \in 1 .. Len(options)}
  IN /\ Len(options) = Min(3, Len(allTargets))
     /\ \A i \in 1 .. Len(options) :
          options[i].crowDistance = haversine(start, Target(options[i].target).coords)
     /\ \A i \in 1 .. Len(options), j \in 1 .. Len(options) :
          i < j => /\ options[i].crowDistance <= options[j].crowDistance
                   /\ options[i].target # options[j].target
     /\ \A k \in 1 .. Len(allTargets) :
          allTargets[k].id \notin chosen =>
            \A i \in 1 .. Len(options) :
              options[i].crowDistance <= haversine(start, allTargets[k].coords)

\* the step in which the latest search completes
LatestSearchCompletes ==
  /\ \E s \in searches : s.id = activeRouteRequest
  /\ activeRouteRequest' = activeRouteRequest
  /\ ~\E s \in searches' : s.id = activeRouteRequest

\* C16: when routeFrom completes as the latest search, routeOptions holds
\* exactly min(3, N) options, the targets nearest to the start by haversine
\* distance in nondecreasing distance; routeOptions never has more than three
\* entries.
C16_NearestThree ==
  /\ [][LatestSearchCompletes => NearestOptions(routeOptions', startCoords')]_vars
  /\ [](Len(routeOptions) <= 3)

C16_Witness ==
  /\ activeRouteRequest = MaxSearches
  /\ searches = {}
  /\ Len(routeOptions) = 3
  /\ routeOptions[1].crowDistance < routeOptions[3].crowDistance

\* C17: once handleRouteSelect has finished and no search is running, a route
\* line on the map is the route of the option that selectedRouteId names, and
\* so is the picked target.
C17_LineOfSelected ==
  (routeLine # NoGeometry /\ selects = <<>> /\ searches = {})
    => /\ routeLine = <<startCoords, selectedRouteId>>
       /\ pickedTarget = selectedRouteId

\* the step of routeFrom past its guard
RouteFromRuns == activeRouteRequest' = activeRouteRequest + 1

\* the step in which geocoding ends without a place
GeocodeFails == searching /\ ~searching' /\ geocodeError' # ""

\* C18: routeFrom(lat, lon) with a map leaves exactly one start marker, at
\* (lat, lon), and no route line; at most one start marker and at most one
\* route line are ever on the map; geocoding that finds nothing or throws
\* does not run routeFrom and leaves marker, line and options as they were.
C18_OneMarker ==
  /\ [][RouteFromRuns =>
          /\ markersOnMap' = <<startCoords'>>
          /\ startMarker' = startCoords'
          /\ linesOnMap' = <<>>
          /\ routeLine' = NoGeometry]_vars
  /\ [](Len(markersOnMap) <= 1 /\ Len(linesOnMap) <= 1)
  /\ [][GeocodeFails =>
          UNCHANGED <<activeRouteRequest, searches, startMarker, markersOnMap,
                      routeLine, linesOnMap, routeOptions>>]_vars

\* a second search has replaced the marker and the line of the first
C18_Witness ==
  /\ activeRouteRequest = 2
  /\ routeCache # {}
  /\ markersOnMap = <<startCoords>>
  /\ linesOnMap = <<>>
  /\ \A k \in routeCache : k[1] # startCoords

\* C19: an exported document has one page, and its i-th line (from 0) is at
\* y = 760 - 18 * i, inside the media box [0, 792].
C19_OnePage ==
  pdf # NoPdf =>
    /\ pdf.pages = 1
    /\ pdf.mediaBox = <<0, 0, 612, 792>>
    /\ \A i \in 1 .. Len(pdf.text) :
         /\ pdf.text[i].y = 760 - 18 * (i - 1)
         /\ 0 <= pdf.text[i].y /\ pdf.text[i].y <= 792

C19_Witness ==
  /\ pdf # NoPdf
  /\ Len(routeOptions) = 3
  /\ Len(pdf.text) = 36
  /\ pdf.text[36].y = 130

---------------------------------------------------------------------------
(* The map page: the two halves *)

\* C20: in every layer-setup run the left half holds imagery, roads and
\* labels whatever the layer settings are; the right half holds imagery, the
\* roads under showRoads, the labels under showLabels and the UAVSAR layer
\* only under showSar.
C20_LeftHalfFixed ==
  \A c \in controls :
    LET settings == runs[c.run].settings
    IN /\ c.before = {"Imagery", "ImageryTransportation", "ImageryLabels"}
       /\ c.after \subseteq {"Imagery", "ImageryTransportation", "ImageryLabels", "UAVSAR"}
       /\ "Imagery" \in c.after
       /\ "ImageryTransportation" \in c.after <=> settings.showRoads
       /\ "ImageryLabels" \in c.after <=> settings.showLabels
       /\ "UAVSAR" \in c.after => settings.showSar
       /\ {l[3] : l \in {m \in layersOnMap : m[1] = c.run /\ m[2] = "before"}} = c.before

\* a run set up with the road overlay and the labels switched off
C20_Witness ==
  \E c \in controls :
    /\ ~runs[c.run].settings.showRoads
    /\ c.before = {"Imagery", "ImageryTransportation", "ImageryLabels"}
    /\ "ImageryTransportation" \notin c.after

\* C21: of two listed options that both have an OSRM driving distance and
\* duration, the one with the shorter driving distance and the shorter travel
\* time is listed before the other.
C21_RankedByDriving ==
  \A i \in 1 .. Len(routeOptions), j \in 1 .. Len(routeOptions) :
    (/\ i < j
     /\ routeOptions[i].osrmDistance # NoNumber /\ routeOptions[i].durationSec # NoNumber
     /\ routeOptions[j].osrmDistance # NoNumber /\ routeOptions[j].durationSec # NoNumber)
      => ~(/\ routeOptions[j].osrmDistance < routeOptions[i].osrmDistance
           /\ routeOptions[j].durationSec < routeOptions[i].durationSec)

\* nothing is in flight: every routeFrom and every handleRouteSelect has
\* finished
AllFinished == activeRouteRequest > 0 /\ searches = {} /\ selects = <<>>

\* C22: the latest search wins: once all invocations have finished,
\* routeOptions are the options computed for the most recent start, and a
\* route on the map is one from that start to the picked target.
C22_LatestWins ==
  AllFinished =>
    /\ \A i \in 1 .. Len(routeOptions) :
         /\ routeOptions[i].crowDistance
              = haversine(startCoords, Target(routeOptions[i].target).coords)
         /\ routeOptions[i].geometry # NoGeometry
              => routeOptions[i].geometry = <<startCoords, routeOptions[i].target>>
    /\ routeLine # NoGeometry => routeLine[1] = startCoords

\* the step in which the k-th waiting handleRouteSelect gets its answer
SelectAnswered(k) ==
  /\ k \in 1 .. Len(selects)
  /\ selects' = [i \in 1 .. Len(selects) - 1 |->
                   IF i < k THEN selects[i] ELSE selects[i + 1]]

\* C23: the answer to a handleRouteSelect request issued for another start
\* than the current one is discarded: it neither changes routeOptions nor
\* draws a route.
C23_StaleDiscarded ==
  [][\A k \in 1 .. MaxSelects :
       (SelectAnswered(k) /\ selects[k].startCoords # startCoords)
         => UNCHANGED <<routeOptions, routeLine, linesOnMap, pickedTarget,
                        selectedRouteStats>>]_vars

\* every import, fetch and parse of every layer-setup run has settled and
\* every layer that is on the map has fired its load event
LayersSettled ==
  /\ runs # <<>>
  /\ \A i \in 1 .. Len(runs) :
       \/ runs[i].phase \in {"returned", "cleaned"}
       \/ /\ runs[i].phase = "set"
          /\ runs[i].pendingBase = 0
          /\ runs[i].sar => runs[i].sarDone

\* C24: once all fetches and load events have resolved, no progress stage is
\* in-progress: a 'sar' stage started by a run that was cancelled before the
\* raster had loaded is marked complete as well.
C24_NoStageStuck ==
  LayersSettled => \A stage \in Stages : stageStatus[stage] # "in-progress"

---------------------------------------------------------------------------
(* The tile endpoint: status and body of a response *)

\* C25: a response with a JSON {error} body has a status outside 200..299
\* (400, the upstream's, or 502), and a response with a status in 200..299
\* carries the image/png body.
C25_ErrorNeverSuccess ==
  \A r \in Requests :
    /\ resp[r].kind = "json" => resp[r].status \notin 200 .. 299
    /\ (resp[r].kind # "none" /\ resp[r].status \in 200 .. 299)
         => /\ resp[r].kind = "image"
            /\ resp[r].contentType = "image/png"

=============================================================================
